---- MODULE Spec2Model ----
(***************************************************************************)
(* A model of model.py: two tables (employees, departments) in one SQLite  *)
(* file, the seed routine example_data() and the three query functions     *)
(* all_employees_nav(), all_employees_join() and raw_sql_query().          *)
(*                                                                         *)
(* The committed tables are `employees` and `departments`.  The session's  *)
(* open transaction sees txEmployees / txDepartments; they differ from the *)
(* committed tables only while example_data() runs.                        *)
(***************************************************************************)
EXTENDS Integers, Sequences, FiniteSets, TLC

VARIABLES
    employees,      \* table employees, committed rows (class Employee)
    departments,    \* table departments, committed rows (class Department)
    txEmployees,    \* employees as db.session's open transaction sees it
    txDepartments,  \* departments as db.session's open transaction sees it
    session,        \* objects pending in db.session
    pc,             \* the line example_data() is about to run, or "idle"
    lastError,      \* the exception the last call raised, or "none"
    history,        \* kinds of the last two committed writes
    fresh,          \* the queries called since the last committed write
    navResult,      \* what all_employees_nav() last returned
    joinResult,     \* what all_employees_join() last returned
    rawResult,      \* what raw_sql_query() last returned
    extCount        \* external insertions since the last seeding

vars == <<employees, departments, txEmployees, txDepartments, session, pc,
          lastError, history, fresh, navResult, joinResult, rawResult,
          extCount>>

(***************************************************************************)
(* Bounds of the model.                                                    *)
(***************************************************************************)
\* externally inserted rows accepted since the tables were last emptied
MaxExternal == 2

(***************************************************************************)
(* Values.                                                                 *)
(***************************************************************************)
\* SQL NULL / Python None in a string column
NULL == "NULL"

\* the bytes of every string that is compared for order or parsed as a number
Bytes ==
    ("ed" :> <<101, 100>>) @@
    ("admin" :> <<97, 100, 109, 105, 110>>) @@
    ("pt" :> <<112, 116>>) @@
    ("oth" :> <<111, 116, 104>>) @@
    ("7" :> <<55>>) @@
    ("07" :> <<48, 55>>) @@
    ("Education" :> <<69, 100, 117, 99, 97, 116, 105, 111, 110>>) @@
    ("Administration" :>
        <<65, 100, 109, 105, 110, 105, 115, 116, 114, 97, 116, 105, 111, 110>>) @@
    ("Part-Time" :> <<80, 97, 114, 116, 45, 84, 105, 109, 101>>) @@
    ("Other" :> <<79, 116, 104, 101, 114>>) @@
    ("HR" :> <<72, 82>>)

\* memcmp order of two byte strings (SQLite's BINARY collation)
LexLess(s, t) ==
    \E i \in 1..Len(t) :
        /\ \A j \in 1..(i - 1) : j <= Len(s) /\ s[j] = t[j]
        /\ (i > Len(s) \/ s[i] < t[i])

\* a text that SQLite reads as an integer literal (digits only, in this model)
IsIntegerLiteral(b) == Len(b) > 0 /\ \A i \in 1..Len(b) : b[i] \in 48..57

RECURSIVE NumVal(_)
NumVal(b) ==
    IF Len(b) = 0 THEN 0
    ELSE 10 * NumVal(SubSeq(b, 1, Len(b) - 1)) + (b[Len(b)] - 48)

\* a value as stored in a column: storage class, text and number
NullValue == [cls |-> "null", txt |-> "", num |-> 0]
TextValue(s) == [cls |-> "text", txt |-> s, num |-> 0]
IntegerValue(n) == [cls |-> "integer", txt |-> "", num |-> n]

(***************************************************************************)
(* Schema: the column types and constraints of the two tables.             *)
(***************************************************************************)
\* employees.dept_code is declared db.Integer: SQLite gives the column
\* INTEGER affinity, so a text that is an integer literal is stored as that
\* integer and every other text is stored unchanged.
IntAffinity(s) ==
    IF s = NULL THEN NullValue
    ELSE IF IsIntegerLiteral(Bytes[s]) THEN IntegerValue(NumVal(Bytes[s]))
    ELSE TextValue(s)

\* departments.dept_code = employees.dept_code, the foreign key's join
\* condition: the TEXT column is compared with the INTEGER-affinity column,
\* so numeric affinity is applied to the department's code first.  NULL is
\* equal to nothing.
SqlEq(v, code) == v.cls # "null" /\ v = IntAffinity(code)

\* the table without its UNIQUE constraint on name
EmployeeInsertOk_Unchecked(tbl, name) == TRUE

\* employees.name is UNIQUE
EmployeeInsertOk(tbl, name) == \A e \in tbl : e.name # name

\* departments.dept_code is the PRIMARY KEY; departments.dept is UNIQUE
\* (any number of NULLs)
DepartmentInsertOk(tbl, d) ==
    /\ \A x \in tbl : x.dept_code # d.dept_code
    /\ d.dept = NULL \/ \A x \in tbl : x.dept # d.dept

\* emp_id is an INTEGER PRIMARY KEY without AUTOINCREMENT: the next rowid is
\* one more than the largest in the table, 1 in an empty table
NextEmpId(tbl) ==
    IF tbl = {} THEN 1
    ELSE (CHOOSE m \in {e.emp_id : e \in tbl} :
              \A e \in tbl : e.emp_id <= m) + 1

\* the column defaults of an Employee object added through the ORM
UNSET == "UNSET"
DefaultState == "CA"
DefaultFavColor(c) == IF c = UNSET THEN "Unknown" ELSE c

\* Employee.dept's backref: Department.employees, loaded with
\* WHERE ? = employees.dept_code ORDER BY employees.emp_id
RECURSIVE OrderByEmpId(_)
OrderByEmpId(S) ==
    IF S = {} THEN <<>>
    ELSE LET m == CHOOSE x \in S : \A y \in S : x.emp_id <= y.emp_id
         IN  <<m>> \o OrderByEmpId(S \ {m})

\* the backref without order_by: the rows come back latest first
DeptEmployees_Reversed(tbl, d) ==
    LET s == OrderByEmpId({e \in tbl : SqlEq(e.dept_code, d.dept_code)})
    IN  [i \in 1..Len(s) |-> s[Len(s) + 1 - i]]

DeptEmployees(tbl, d) ==
    OrderByEmpId({e \in tbl : SqlEq(e.dept_code, d.dept_code)})

(***************************************************************************)
(* The objects example_data() builds.                                      *)
(***************************************************************************)
NoDept == "None"

DeptObj ==
    [ded |-> [dept_code |-> "ed", dept |-> "Education", phone |-> "555-1000"],
     dad |-> [dept_code |-> "admin", dept |-> "Administration",
              phone |-> "555-2222"],
     dpt |-> [dept_code |-> "pt", dept |-> "Part-Time", phone |-> "555-9999"],
     dot |-> [dept_code |-> "oth", dept |-> "Other", phone |-> "555-3333"]]

Emp(n, d, c) == [name |-> n, dept |-> d, fav_color |-> c]

SeedEmployees ==
    << Emp("Joel Burton", "ded", "orange"),
       Emp("Cynthia Dueltgen", "ded", "purple"),
       Emp("Rachel Thomas", "ded", UNSET),
       Emp("Katie Lefevre", "ded", "rainbow"),
       Emp("Meggie Mahnken", "ded", "black"),
       Emp("Heather Bryant", "ded", "purple"),
       Emp("Kristen McClure", "ded", "orange"),
       Emp("Lavinia Karl", "ded", UNSET),
       Emp("Denise Wiedl", "ded", UNSET),
       Emp("David Phillips", "dad", UNSET),
       Emp("Angie Chang", "dad", UNSET),
       Emp("Stefan Gomez", "dad", UNSET),
       Emp("Laura Gillen", "dad", UNSET),
       Emp("Paria Rajai", "dad", UNSET),
       Emp("Wendy Saccuzzo", "dot", UNSET),
       Emp("Dori Grant", "dot", UNSET),
       Emp("Kari Burge", "dot", "purple"),
       Emp("Rachel Walker", "dpt", UNSET),
       Emp("Anna Akullian", "dpt", UNSET),
       Emp("Jumal Qazi", "dpt", "orange"),
       Emp("Balloonicorn", NoDept, "rainbow") >>

EmptySession == [emps |-> <<>>, depts |-> <<>>]

\* session.add_all(objs): each object is added in list order and the
\* save-update cascade of Employee.dept adds the department it refers to
RECURSIVE CascadeDepts(_, _)
CascadeDepts(objs, acc) ==
    IF objs = <<>> THEN acc
    ELSE LET d == Head(objs).dept
             seen == \E i \in 1..Len(acc) : acc[i] = DeptObj[d]
         IN  CascadeDepts(Tail(objs),
                 IF d = NoDept \/ seen THEN acc ELSE Append(acc, DeptObj[d]))

\* add_all without the cascade to the employees' departments
SessionAddAll_NoCascade(objs) == [emps |-> objs, depts |-> <<>>]

SessionAddAll(objs) == [emps |-> objs, depts |-> CascadeDepts(objs, <<>>)]

\* the flush of commit(): INSERT the pending departments, then the pending
\* employees in the order they were added; the first constraint violation
\* fails the whole flush
RECURSIVE FlushDepartments(_, _)
FlushDepartments(tbl, objs) ==
    IF objs = <<>> THEN [ok |-> TRUE, rows |-> tbl]
    ELSE IF ~DepartmentInsertOk(tbl, Head(objs))
         THEN [ok |-> FALSE, rows |-> tbl]
         ELSE FlushDepartments(tbl \cup {Head(objs)}, Tail(objs))

EmployeeRow(tbl, o) ==
    [emp_id |-> NextEmpId(tbl),
     name |-> o.name,
     state |-> DefaultState,
     fav_color |-> DefaultFavColor(o.fav_color),
     dept_code |-> IF o.dept = NoDept THEN NullValue
                   ELSE IntAffinity(DeptObj[o.dept].dept_code)]

RECURSIVE FlushEmployees(_, _)
FlushEmployees(tbl, objs) ==
    IF objs = <<>> THEN [ok |-> TRUE, rows |-> tbl]
    ELSE IF ~EmployeeInsertOk(tbl, Head(objs).name)
         THEN [ok |-> FALSE, rows |-> tbl]
         ELSE FlushEmployees(tbl \cup {EmployeeRow(tbl, Head(objs))},
                             Tail(objs))

(***************************************************************************)
(* The three queries, as functions of the tables they read.                *)
(***************************************************************************)
\* the query without its filter
AllEmployeesNavRows_Unfiltered(emps) == OrderByEmpId(emps)

\* SELECT ... FROM employees WHERE employees.dept_code IS NOT NULL: a scan of
\* the table in rowid order
AllEmployeesNavRows(emps) ==
    OrderByEmpId({e \in emps : e.dept_code.cls # "null"})

\* SELECT employees.name, departments.dept, departments.phone
\* FROM employees JOIN departments
\*      ON departments.dept_code = employees.dept_code
\* There is no ORDER BY: the result is the bag of the joined rows' tuples.
JoinPairs(emps, depts) ==
    {p \in emps \X depts : SqlEq(p[1].dept_code, p[2].dept_code)}

JoinTuple(p) == <<p[1].name, p[2].dept, p[2].phone>>

AllEmployeesJoinRows(emps, depts) ==
    LET pairs == JoinPairs(emps, depts)
    IN  [t \in {JoinTuple(p) : p \in pairs} |->
             Cardinality({p \in pairs : JoinTuple(p) = t})]

\* a comparison that ignores case
IsOrange_AnyCase(e) == e.fav_color \in {"orange", "Orange"}

\* WHERE fav_color='orange': a byte-for-byte comparison
IsOrange(e) == e.fav_color = "orange"

\* ORDER BY dept: NULL sorts first; rows with equal dept keep the order of
\* the GROUP BY, which is by dept_code
DeptNameLess(a, b) ==
    /\ b # NULL
    /\ a = NULL \/ LexLess(Bytes[a], Bytes[b])

RawRowBefore(r, q) ==
    \/ DeptNameLess(r[2], q[2])
    \/ r[2] = q[2] /\ LexLess(Bytes[r[1]], Bytes[q[1]])

RECURSIVE OrderByDept(_)
OrderByDept(S) ==
    IF S = {} THEN <<>>
    ELSE LET m == CHOOSE x \in S : \A y \in S \ {x} : RawRowBefore(x, y)
         IN  <<m>> \o OrderByDept(S \ {m})

\* SELECT dept_code, dept, COUNT(*) FROM Departments JOIN Employees
\* USING (dept_code) WHERE fav_color='orange' GROUP BY dept_code ORDER BY dept
RawSqlQueryRows(emps, depts) ==
    LET num_emps(d) ==
            Cardinality({e \in emps :
                            SqlEq(e.dept_code, d.dept_code) /\ IsOrange(e)})
    IN  OrderByDept({<<d.dept_code, d.dept, num_emps(d)>> :
                        d \in {x \in depts : num_emps(x) > 0}})

EmptyBag == [t \in {} |-> 0]

(***************************************************************************)
(* Initial state: db.create_all() has created the two empty tables.        *)
(***************************************************************************)
Init ==
    /\ employees = {}
    /\ departments = {}
    /\ txEmployees = {}
    /\ txDepartments = {}
    /\ session = EmptySession
    /\ pc = "idle"
    /\ lastError = "none"
    /\ history = <<>>
    /\ fresh = {}
    /\ navResult = <<>>
    /\ joinResult = EmptyBag
    /\ rawResult = <<>>
    /\ extCount = 0

\* the kinds of the last two committed writes, the latest last
Remember(kind) ==
    IF Len(history) < 2 THEN Append(history, kind)
    ELSE <<history[2], kind>>

NoResults ==
    /\ fresh' = {}
    /\ navResult' = <<>>
    /\ joinResult' = EmptyBag
    /\ rawResult' = <<>>

(***************************************************************************)
(* example_data(), one step per statement that reaches the database.  The  *)
(* program is single-threaded: once the routine has started, nothing else  *)
(* runs until it has returned or raised.                                   *)
(***************************************************************************)
\* the delete of line 59 committed on its own
DeleteDepartments_Autocommit ==
    /\ pc = "idle"
    /\ txDepartments' = {}
    /\ departments' = {}
    /\ pc' = "line60"
    /\ lastError' = "none"
    /\ UNCHANGED <<employees, txEmployees, session, history, fresh,
                   navResult, joinResult, rawResult, extCount>>

\* line 59: Department.query.delete(), inside the session's transaction
DeleteDepartments ==
    /\ pc = "idle"
    /\ txDepartments' = {}
    /\ pc' = "line60"
    /\ lastError' = "none"
    /\ UNCHANGED <<employees, departments, txEmployees, session, history,
                   fresh, navResult, joinResult, rawResult, extCount>>

\* example_data() without line 60
DeleteEmployees_Skipped ==
    /\ pc = "line60"
    /\ pc' = "line94"
    /\ UNCHANGED <<employees, departments, txEmployees, txDepartments,
                   session, lastError, history, fresh, navResult, joinResult,
                   rawResult, extCount>>

\* line 60: Employee.query.delete()
DeleteEmployees ==
    /\ pc = "line60"
    /\ txEmployees' = {}
    /\ pc' = "line94"
    /\ UNCHANGED <<employees, departments, txDepartments, session, lastError,
                   history, fresh, navResult, joinResult, rawResult, extCount>>

\* lines 62-94: build the objects and db.session.add_all(employees)
AddAll ==
    /\ pc = "line94"
    /\ session' = SessionAddAll(SeedEmployees)
    /\ pc' = "line95"
    /\ UNCHANGED <<employees, departments, txEmployees, txDepartments,
                   lastError, history, fresh, navResult, joinResult,
                   rawResult, extCount>>

\* line 95: db.session.commit(): flush, then make the transaction durable.
\* A constraint violation in the flush raises IntegrityError and nothing of
\* the transaction is committed.
Commit ==
    /\ pc = "line95"
    /\ LET fd == FlushDepartments(txDepartments, session.depts)
           fe == FlushEmployees(txEmployees, session.emps)
       IN  IF fd.ok /\ fe.ok
           THEN /\ departments' = fd.rows
                /\ employees' = fe.rows
                /\ txDepartments' = fd.rows
                /\ txEmployees' = fe.rows
                /\ lastError' = "none"
                /\ history' = Remember("example_data")
                /\ extCount' = 0
                /\ NoResults
           ELSE /\ txDepartments' = departments
                /\ txEmployees' = employees
                /\ lastError' = "IntegrityError"
                /\ UNCHANGED <<employees, departments, history, extCount,
                               fresh, navResult, joinResult, rawResult>>
    /\ session' = EmptySession
    /\ pc' = "idle"

\* a storage call of example_data() raises (disk, lock, ...): the exception
\* leaves the routine and the open transaction is never committed
Abort ==
    /\ pc # "idle"
    /\ txDepartments' = departments
    /\ txEmployees' = employees
    /\ session' = EmptySession
    /\ pc' = "idle"
    /\ lastError' = "OperationalError"
    /\ UNCHANGED <<employees, departments, history, fresh, navResult,
                   joinResult, rawResult, extCount>>

(***************************************************************************)
(* The query functions.                                                    *)
(***************************************************************************)
\* a query that deletes the rows it filters out
all_employees_nav_Deleting ==
    /\ pc = "idle"
    /\ navResult' = AllEmployeesNavRows(txEmployees)
    /\ fresh' = fresh \cup {"nav"}
    /\ employees' = {e \in employees : e.dept_code.cls # "null"}
    /\ txEmployees' = employees'
    /\ UNCHANGED <<departments, txDepartments, session, pc, lastError,
                   history, joinResult, rawResult, extCount>>

all_employees_nav ==
    /\ pc = "idle"
    /\ navResult' = AllEmployeesNavRows(txEmployees)
    /\ fresh' = fresh \cup {"nav"}
    /\ UNCHANGED <<employees, departments, txEmployees, txDepartments,
                   session, pc, lastError, history, joinResult, rawResult,
                   extCount>>

all_employees_join ==
    /\ pc = "idle"
    /\ joinResult' = AllEmployeesJoinRows(txEmployees, txDepartments)
    /\ fresh' = fresh \cup {"join"}
    /\ UNCHANGED <<employees, departments, txEmployees, txDepartments,
                   session, pc, lastError, history, navResult, rawResult,
                   extCount>>

raw_sql_query ==
    /\ pc = "idle"
    /\ rawResult' = RawSqlQueryRows(employees, departments)
    /\ fresh' = fresh \cup {"raw"}
    /\ UNCHANGED <<employees, departments, txEmployees, txDepartments,
                   session, pc, lastError, history, navResult, joinResult,
                   extCount>>

(***************************************************************************)
(* External insertion of one committed row, subject to the schema.  The    *)
(* UNIQUE and PRIMARY KEY constraints are enforced.  The foreign key of    *)
(* employees.dept_code is declared but not enforced: SQLite checks foreign *)
(* keys only after PRAGMA foreign_keys=ON, which connect_to_db never       *)
(* issues.                                                                 *)
(***************************************************************************)
ExtEmployeeNames == {"Zed", "Joel Burton"}
ExtFavColors == {"orange", "Orange"}
ExtEmployeeDepts == {NULL, "ed", "7"}
ExtDepartmentCodes == {"ed", "7", "07"}
ExtDepartmentNames == {"Education", "HR", NULL}
ExtPhone == "555-0000"

InsertEmployee(name, color, code) ==
    /\ pc = "idle"
    /\ extCount < MaxExternal
    /\ IF EmployeeInsertOk(employees, name)
       THEN /\ employees' = employees \cup
                    {[emp_id |-> NextEmpId(employees),
                      name |-> name,
                      state |-> DefaultState,
                      fav_color |-> color,
                      dept_code |-> IntAffinity(code)]}
            /\ txEmployees' = employees'
            /\ lastError' = "none"
            /\ history' = Remember("insert")
            /\ extCount' = extCount + 1
            /\ NoResults
       ELSE /\ lastError' = "IntegrityError"
            /\ UNCHANGED <<employees, txEmployees, history, extCount, fresh,
                           navResult, joinResult, rawResult>>
    /\ UNCHANGED <<departments, txDepartments, session, pc>>

InsertDepartment(code, name) ==
    /\ pc = "idle"
    /\ extCount < MaxExternal
    /\ LET d == [dept_code |-> code, dept |-> name, phone |-> ExtPhone]
       IN  IF DepartmentInsertOk(departments, d)
           THEN /\ departments' = departments \cup {d}
                /\ txDepartments' = departments'
                /\ lastError' = "none"
                /\ history' = Remember("insert")
                /\ extCount' = extCount + 1
                /\ NoResults
           ELSE /\ lastError' = "IntegrityError"
                /\ UNCHANGED <<departments, txDepartments, history, extCount,
                               fresh, navResult, joinResult, rawResult>>
    /\ UNCHANGED <<employees, txEmployees, session, pc>>

Next ==
    \/ DeleteDepartments
    \/ DeleteEmployees
    \/ AddAll
    \/ Commit
    \/ Abort
    \/ all_employees_nav
    \/ all_employees_join
    \/ raw_sql_query
    \/ \E n \in ExtEmployeeNames, c \in ExtFavColors, d \in ExtEmployeeDepts :
           InsertEmployee(n, c, d)
    \/ \E c \in ExtDepartmentCodes, n \in ExtDepartmentNames :
           InsertDepartment(c, n)

Spec == Init /\ [][Next]_vars

(***************************************************************************)
(* Vocabulary of the properties.                                           *)
(***************************************************************************)
LastWrite == IF history = <<>> THEN "none" ELSE history[Len(history)]

SeedNames == {SeedEmployees[i].name : i \in 1..Len(SeedEmployees)}

SeedDeptCodes == {"ed", "admin", "pt", "oth"}

\* a step in which example_data() returns normally or with IntegrityError
\* (not one in which a storage call failed for an outside reason)
ExampleDataReturns ==
    pc = "line95" /\ pc' = "idle" /\ lastError' # "OperationalError"

\* a row without its generated identifier
Attrs(e) == <<e.name, e.state, e.fav_color, e.dept_code>>

RECURSIVE BagSize(_)
BagSize(b) ==
    IF DOMAIN b = {} THEN 0
    ELSE LET t == CHOOSE x \in DOMAIN b : TRUE
         IN  b[t] + BagSize([x \in DOMAIN b \ {t} |-> b[x]])

\* the names of the seed list's employees of one department object, in the
\* order of the list
RECURSIVE SeedNamesOf(_, _)
SeedNamesOf(objs, ref) ==
    IF objs = <<>> THEN <<>>
    ELSE (IF Head(objs).dept = ref THEN <<Head(objs).name>> ELSE <<>>)
             \o SeedNamesOf(Tail(objs), ref)

\* C1: whatever the two tables held before (nothing, the seed rows or
\* externally inserted rows), when example_data() returns the store holds
\* exactly the 4 departments ed, admin, pt and oth and exactly 21 employees,
\* each of them a row of the seed list, so no prior row survives and all 4
\* departments are persisted through the cascade of add_all.
C1_SeedReplacesStore ==
    [][ExampleDataReturns =>
          /\ lastError' = "none"
          /\ Cardinality(departments') = 4
          /\ {d.dept_code : d \in departments'} = SeedDeptCodes
          /\ Cardinality(employees') = 21
          /\ \A e \in employees' :
                 \E i \in 1..Len(SeedEmployees) :
                     /\ e.name = SeedEmployees[i].name
                     /\ e.fav_color \in {SeedEmployees[i].fav_color, "Unknown"}
          /\ \A e \in employees :
                 e.name \notin SeedNames => e \notin employees'
          /\ \A d \in departments :
                 d.dept_code \notin SeedDeptCodes => d \notin departments']_vars

\* example_data() has completed on a store whose last write was an external
\* insertion
C1_Witness ==
    /\ pc = "idle"
    /\ history = <<"insert", "example_data">>
    /\ Cardinality(employees) = 21
    /\ Cardinality(departments) = 4

\* C2: example_data() is idempotent: when it returns and the write before it
\* was example_data() too, the committed departments and the employees' name,
\* state, fav_color and dept_code are the same as before the second call, and
\* the counts are 21 and 4.
C2_ReseedIdempotent ==
    [][(ExampleDataReturns /\ LastWrite = "example_data") =>
          /\ lastError' = "none"
          /\ departments' = departments
          /\ {Attrs(e) : e \in employees'} = {Attrs(e) : e \in employees}
          /\ Cardinality(employees') = 21
          /\ Cardinality(departments') = 4]_vars

\* example_data() has completed twice in succession
C2_Witness ==
    /\ pc = "idle"
    /\ history = <<"example_data", "example_data">>
    /\ Cardinality(employees) = 21

\* C3: the result of all_employees_nav() holds every employee with a non-null
\* dept_code exactly once and no employee with a null one; right after
\* seeding that is 20 of the 21 employees, Balloonicorn being the only
\* employee without a department.
C3_NavNonNullDept ==
    "nav" \in fresh =>
        /\ \A i \in 1..Len(navResult) : navResult[i] \in employees
        /\ \A e \in employees :
               Cardinality({i \in 1..Len(navResult) : navResult[i] = e})
                   = IF e.dept_code.cls = "null" THEN 0 ELSE 1
        /\ LastWrite = "example_data" =>
               /\ Len(navResult) = 20
               /\ Cardinality(employees) = 21
               /\ {e.name : e \in {x \in employees : x.dept_code.cls = "null"}}
                      = {"Balloonicorn"}
               /\ \A i \in 1..Len(navResult) :
                      navResult[i].name # "Balloonicorn"

\* all_employees_nav() has been called on the seeded store
C3_Witness ==
    /\ "nav" \in fresh
    /\ LastWrite = "example_data"
    /\ Len(navResult) = 20

\* C4: all_employees_join() returns one tuple per employee that
\* all_employees_nav() returns and no others: same cardinality, same employee
\* names, and each tuple carries the name and phone of the department whose
\* dept_code equals the employee's.
C4_JoinMatchesNav ==
    {"nav", "join"} \subseteq fresh =>
        /\ BagSize(joinResult) = Len(navResult)
        /\ {t[1] : t \in DOMAIN joinResult}
               = {navResult[i].name : i \in 1..Len(navResult)}
        /\ \A t \in DOMAIN joinResult :
               \E e \in employees, d \in departments :
                   /\ e.name = t[1]
                   /\ SqlEq(e.dept_code, d.dept_code)
                   /\ t[2] = d.dept
                   /\ t[3] = d.phone

C6_ReferentialIntegrity ==
    \A e \in employees :
        e.dept_code.cls # "null" =>
            \E d \in departments : SqlEq(e.dept_code, d.dept_code)

\* C7: no two employees share a name, no two departments share a dept_code
\* or a non-null dept; a rejected insertion (IntegrityError) leaves both
\* tables as they were; and example_data() never ends in IntegrityError, on a
\* first run or on a re-run.
UniqueKeys ==
    /\ \A e1, e2 \in employees : e1.name = e2.name => e1 = e2
    /\ \A d1, d2 \in departments : d1.dept_code = d2.dept_code => d1 = d2
    /\ \A d1, d2 \in departments :
           (d1.dept # NULL /\ d1.dept = d2.dept) => d1 = d2

C7_Uniqueness ==
    /\ []UniqueKeys
    /\ [][lastError' = "IntegrityError" =>
              UNCHANGED <<employees, departments>>]_vars
    /\ [][pc = "line95" => lastError' # "IntegrityError"]_vars

\* an insertion into the seeded store has been rejected
C7_Witness ==
    /\ pc = "idle"
    /\ lastError = "IntegrityError"
    /\ LastWrite = "example_data"
    /\ Cardinality(employees) = 21

C9_AtomicSeed ==
    [][(pc # "idle" \/ pc' # "idle") =>
          \/ UNCHANGED <<employees, departments>>
          \/ /\ pc = "line95"
             /\ pc' = "idle"
             /\ lastError' = "none"
             /\ Cardinality(employees') = 21
             /\ Cardinality(departments') = 4]_vars

\* both deletes have run in the transaction while the committed tables still
\* hold their rows
C9_Witness ==
    /\ pc = "line94"
    /\ txEmployees = {}
    /\ txDepartments = {}
    /\ employees # {}
    /\ departments # {}

\* C10: a call of all_employees_nav(), all_employees_join() or
\* raw_sql_query() leaves both tables unchanged, and a function called again
\* with no write in between returns what it returned before.
QueryStep ==
    /\ fresh' # {}
    /\ \/ fresh' # fresh
       \/ navResult' # navResult
       \/ joinResult' # joinResult
       \/ rawResult' # rawResult
       \/ employees' # employees

C10_QueriesPure ==
    [][QueryStep =>
          /\ UNCHANGED <<employees, departments>>
          /\ "nav" \in fresh => navResult' = navResult
          /\ "join" \in fresh => joinResult' = joinResult
          /\ "raw" \in fresh => rawResult' = rawResult]_vars

\* all three queries have been called on a store that holds employees with
\* and without a department
C10_Witness ==
    /\ fresh = {"nav", "join", "raw"}
    /\ Len(navResult) > 0
    /\ Len(navResult) < Cardinality(employees)
    /\ Len(rawResult) > 0

====
